---- MODULE Spec2Model ----
(***************************************************************************)
(* pydantic_property: field_property descriptors, the PropertyModel        *)
(* metaclass that registers them, and PropertyModel.__setattr__, which     *)
(* keeps the instance __dict__ (what .dict() serialises) in step with the  *)
(* descriptors' getters.                                                   *)
(*                                                                         *)
(* Spec      : one instance of a model class; attribute writes, reads and  *)
(*             deletes.                                                    *)
(* MetaSpec  : PropertyModelMetaclass.__new__ building classes.            *)
(***************************************************************************)
EXTENDS Integers, Sequences, FiniteSets, TLC

VARIABLES cls, dict, slots, last, pre, nops,
          classes, built

ivars == <<cls, dict, slots, last, pre, nops>>
mvars == <<classes, built>>
vars == <<cls, dict, slots, last, pre, nops, classes, built>>

(***************************************************************************)
(* Bounds                                                                  *)
(***************************************************************************)
\* attribute operations performed on the instance
MaxOps == 2
\* int inputs are 0..MaxInt
MaxInt == 1
\* float inputs are h/2 for h in -MaxHalf..MaxHalf
MaxHalf == 3

(***************************************************************************)
(* Python values.  A float is held exactly as a count of halves (every     *)
(* multiple of 0.5 in range is exact in binary floating point, and so are  *)
(* v % 1, (v % 1) * 10 and int(v) on it).                                  *)
(***************************************************************************)
IntV(n) == [t |-> "int", n |-> n]
FloatV(h) == [t |-> "float", n |-> h]
None == [t |-> "None", n |-> 0]
Undefined == [t |-> "Undefined", n |-> 0]
\* an instance slot that holds nothing: getattr raises AttributeError
Missing == [t |-> "missing", n |-> 0]
\* default_factory=None
NoFactory == [t |-> "nofactory", n |-> 0]

IntInputs == {IntV(n) : n \in 0..MaxInt}
FloatInputs == {FloatV(h) : h \in (-MaxHalf)..MaxHalf}

\* int(value): truncation toward zero
PyInt(v) ==
    IF v.t = "float"
    THEN IntV(IF v.n >= 0 THEN v.n \div 2 ELSE -((-v.n) \div 2))
    ELSE v

\* int((value % 1) * 10); Python's % takes the sign of the divisor
FracTenths(v) == IntV(((v.n % 2) * 10) \div 2)

(***************************************************************************)
(* Functions handed to a descriptor.                                       *)
(***************************************************************************)
NoName == ""
NoFn == [kind |-> "none", slot |-> NoName, other |-> NoName, dflt |-> None]
\* fget=None or a string: field_property.internal_getter
InternalGetter == [kind |-> "internal_getter", slot |-> NoName, other |-> NoName, dflt |-> None]
\* def f(self): return getattr(self, slot, dflt)
GetattrOr(slot, dflt) == [kind |-> "getattr", slot |-> slot, other |-> NoName, dflt |-> dflt]
\* def f(self, value): self.<slot> = value
StoreTo(slot) == [kind |-> "store", slot |-> slot, other |-> NoName, dflt |-> None]
\* the y setter of the test: a float also writes the other field's slot
Coupled(slot, other) == [kind |-> "coupled", slot |-> slot, other |-> other, dflt |-> None]
\* def f(self): del self.<slot>
DelSlot(slot) == [kind |-> "del", slot |-> slot, other |-> NoName, dflt |-> None]

(***************************************************************************)
(* field_property                                                          *)
(***************************************************************************)
\* a string passed as fget: the private slot name shorthand
SlotName(slot) == [kind |-> "str", slot |-> slot, other |-> NoName, dflt |-> None]
\* inspect.signature(fget).return_annotation used as default_factory
ReturnAnnotation == [t |-> "signature", n |-> 0]

\* field_property.__init__; id stands for the identity of the object built
field_property(id, fget, fset, fdel, default, private_name, default_factory) ==
    LET both == default # Undefined /\ default_factory # NoFactory
    IN  [id |-> id,
         private_name |-> IF fget.kind = "str" THEN fget.slot ELSE private_name,
         fget |-> IF fget.kind \in {"str", "none"} THEN InternalGetter ELSE fget,
         fset |-> fset,
         fdel |-> fdel,
         \* no function of this model carries a return annotation
         default |-> IF both THEN None ELSE default,
         default_factory |-> IF both THEN ReturnAnnotation ELSE default_factory]

\* the chained builders: each attaches the function and returns the descriptor
getter(d, fget) == [d EXCEPT !.fget = fget]
setter(d, fset) == [d EXCEPT !.fset = fset]
deleter(d, fdel) == [d EXCEPT !.fdel = fdel]

\* field_property.get_default
get_default(d) ==
    IF d.default # Undefined THEN d.default
    ELSE IF d.default_factory # NoFactory THEN d.default_factory
    ELSE Undefined

\* default.__class__
ClassOf(v) == v.t

\* field_property.get_type
get_type(d) ==
    LET default == get_default(d)
    IN  IF default = Undefined THEN "Undefined" ELSE ClassOf(default)

\* the outcome of a call: a value, or the exception raised
Ret(v) == [err |-> "ok", val |-> v]
Raise(e) == [err |-> e, val |-> None]

\* getattr(instance, name) on the slots of the instance
GetSlot(s, name) ==
    IF name = NoName THEN Raise("TypeError")
    ELSE IF name \notin DOMAIN s \/ s[name] = Missing THEN Raise("AttributeError")
    ELSE Ret(s[name])

\* internal_getter preferring the default to the slot
internal_getter_default_first(d, s) ==
    IF get_default(d) # Undefined THEN Ret(get_default(d))
    ELSE GetSlot(s, d.private_name)

\* field_property.internal_getter
internal_getter(d, s) ==
    LET got == GetSlot(s, d.private_name)
    IN  IF got.err # "AttributeError" THEN got
        ELSE IF get_default(d) = Undefined THEN Raise("AttributeError")
        ELSE Ret(None)

\* calling a getter function on the instance
CallGetter(d, s) ==
    IF d.fget.kind = "internal_getter" THEN internal_getter(d, s)
    ELSE LET got == GetSlot(s, d.fget.slot)
         IN  IF got.err = "AttributeError" THEN Ret(d.fget.dflt) ELSE got

\* field_property.__get__ with obj given
descriptor_get(d, s) ==
    IF d.fget.kind = "none" THEN Raise("AttributeError: unreadable attribute")
    ELSE CallGetter(d, s)

(***************************************************************************)
(* Class bodies: the namespace handed to the metaclass is an ordered dict, *)
(* held as a sequence of entries with distinct names.                      *)
(***************************************************************************)
\* the names that start with one underscore
SlotNames == {"_x", "_y", "_z", "_u", "_w", "_r"}
IsPrivateName(n) == n \in SlotNames

\* pydantic.fields.PrivateAttr(default, default_factory)
PrivateAttr(default, default_factory) ==
    [default |-> default, default_factory |-> default_factory]

FP(name, d) == [name |-> name, kind |-> "field_property", val |-> d]
PA(name, p) == [name |-> name, kind |-> "PrivateAttr", val |-> p]
Plain(name, v) == [name |-> name, kind |-> "plain", val |-> v]

NsNames(ns) == {ns[i].name : i \in 1..Len(ns)}
NsIndex(ns, name) == CHOOSE i \in 1..Len(ns) : ns[i].name = name
NsGet(ns, name) == ns[NsIndex(ns, name)]
\* namespace[name] = entry: an existing key keeps its place, a new one goes last
NsSet(ns, entry) ==
    IF entry.name \in NsNames(ns)
    THEN [ns EXCEPT ![NsIndex(ns, entry.name)] = entry]
    ELSE Append(ns, entry)

Override(f, g) ==
    [k \in DOMAIN f \cup DOMAIN g |-> IF k \in DOMAIN g THEN g[k] ELSE f[k]]
EmptyMap == [k \in {} |-> None]

\* FieldInfo._validate of the model system
Validate(d) ==
    IF d.default # Undefined /\ d.default_factory # NoFactory
    THEN "ValueError" ELSE "ok"

\* the body of the registration loop for one item of list(namespace.items())
RegisterItem(acc, item) ==
    IF item.kind # "field_property" THEN acc
    ELSE LET field == item.val
             ann1 == IF item.name \notin DOMAIN acc.ann
                     THEN Override(acc.ann, [k \in {item.name} |-> get_type(field)])
                     ELSE acc.ann
             ns1 == IF field.private_name # NoName
                    THEN NsSet(acc.ns, PA(field.private_name,
                                 PrivateAttr(field.default, field.default_factory)))
                    ELSE acc.ns
         IN  IF Validate(field) # "ok"
             THEN [acc EXCEPT !.err = Validate(field)]
             ELSE [err |-> "ok", ns |-> ns1, ann |-> ann1]

RECURSIVE RegisterFrom(_, _, _)
RegisterFrom(items, i, acc) ==
    IF i > Len(items) \/ acc.err # "ok" THEN acc
    ELSE RegisterFrom(items, i + 1, RegisterItem(acc, items[i]))

\* PropertyModelMetaclass.__new__, up to the call of super().__new__
RegistrationPass(namespace, annotations) ==
    RegisterFrom(namespace, 1, [err |-> "ok", ns |-> namespace, ann |-> annotations])

(***************************************************************************)
(* Classes.  A class table maps a class name to what the class carries.    *)
(***************************************************************************)
NonEmpty(q) == q # <<>>
InTail(h, q) == \E i \in 2..Len(q) : q[i] = h
Without(q, h) == SelectSeq(q, LAMBDA e : e # h)
SetMin(S) == CHOOSE i \in S : \A j \in S : i <= j
Conflict == "<mro conflict>"

\* the C3 merge of type.__new__ (the method resolution order)
RECURSIVE C3Merge(_)
C3Merge(seqs) ==
    LET ne == SelectSeq(seqs, NonEmpty)
        cands == {i \in 1..Len(ne) : \A j \in 1..Len(ne) : ~InTail(ne[i][1], ne[j])}
    IN  IF ne = <<>> THEN <<>>
        ELSE IF cands = {} THEN <<Conflict>>
        ELSE LET h == ne[SetMin(cands)][1]
             IN  <<h>> \o C3Merge([j \in 1..Len(ne) |-> Without(ne[j], h)])

Mro(tbl, name, bases) ==
    <<name>> \o C3Merge([i \in 1..Len(bases) |-> tbl[bases[i]].mro] \o <<bases>>)

RECURSIVE MergeBases(_, _, _, _)
\* for base in reversed(bases): acc.update(base.<attr>)
MergeBases(tbl, bases, i, attr) ==
    IF i > Len(bases) THEN EmptyMap
    ELSE Override(MergeBases(tbl, bases, i + 1, attr),
                  IF attr = "fields" THEN tbl[bases[i]].fields ELSE tbl[bases[i]].private)

FieldDefault(e) == IF e.kind = "field_property" THEN get_default(e.val) ELSE e.val

\* super().__new__: the model system's class builder.  It sees the namespace
\* and the annotations dict the namespace holds; accept is its verdict on an
\* annotation that is Undefined.
Delegate(tbl, name, bases, ns, seen, accept) ==
    LET mro == Mro(tbl, name, bases)
        ownFields == {n \in DOMAIN seen : ~IsPrivateName(n)} \cup
                     {ns[i].name : i \in {j \in 1..Len(ns) :
                          ns[j].kind # "PrivateAttr" /\ ~IsPrivateName(ns[j].name)}}
        ownPrivate == {ns[i].name : i \in {j \in 1..Len(ns) : ns[j].kind = "PrivateAttr"}}
    IN  IF \E i \in 1..Len(mro) : mro[i] = Conflict
        THEN [err |-> "TypeError", mro |-> <<>>, fields |-> EmptyMap, private |-> EmptyMap]
        ELSE IF ~accept /\ (\/ \E n \in DOMAIN seen : seen[n] = "Undefined"
                             \/ \E i \in 1..Len(ns) :
                                   /\ ns[i].kind = "field_property"
                                   /\ ns[i].name \notin DOMAIN seen
                                   /\ get_type(ns[i].val) = "Undefined")
        THEN [err |-> "ModelSystemError", mro |-> <<>>, fields |-> EmptyMap, private |-> EmptyMap]
        ELSE [err |-> "ok",
              mro |-> mro,
              fields |-> Override(MergeBases(tbl, bases, 1, "fields"),
                            [n \in ownFields |->
                                IF n \in NsNames(ns) THEN FieldDefault(NsGet(ns, n))
                                ELSE Undefined]),
              private |-> Override(MergeBases(tbl, bases, 1, "private"),
                            [n \in ownPrivate |-> NsGet(ns, n).val])]

RECURSIVE BaseRegistries(_, _, _)
\* for base in bases: field_properties.extend(base.__field_properties__)
BaseRegistries(tbl, bases, i) ==
    IF i > Len(bases) THEN <<>>
    ELSE tbl[bases[i]].registry \o BaseRegistries(tbl, bases, i + 1)

IsFieldPropertyEntry(e) == e.kind = "field_property"
EntryName(e) == e.name
RECURSIVE MapNames(_)
MapNames(q) == IF q = <<>> THEN <<>> ELSE <<EntryName(Head(q))>> \o MapNames(Tail(q))

\* the names appended for the class's own descriptors, in namespace order
OwnFieldProperties(ns) == MapNames(SelectSeq(ns, IsFieldPropertyEntry))

\* new_cls.__field_properties__
FieldProperties(tbl, bases, ns) ==
    BaseRegistries(tbl, bases, 1) \o OwnFieldProperties(ns)

\* setattr(new_cls, varname, field) for every descriptor of the namespace
OwnDescriptors(ns) ==
    [n \in {ns[i].name : i \in {j \in 1..Len(ns) : ns[j].kind = "field_property"}}
        |-> NsGet(ns, n).val]

NoClass == [bases |-> <<>>, mro |-> <<>>, own |-> EmptyMap, registry |-> <<>>,
            fields |-> EmptyMap, private |-> EmptyMap]

\* PropertyModelMetaclass.__new__
MetaNew(tbl, name, bases, namespace, annotations, accept) ==
    LET hasAnn == DOMAIN annotations # {}
        reg == RegistrationPass(namespace, annotations)
        del == Delegate(tbl, name, bases, reg.ns,
                        IF hasAnn THEN reg.ann ELSE EmptyMap, accept)
    IN  IF reg.err # "ok"
        THEN [err |-> reg.err, raisedBy |-> "registration", delegated |-> FALSE,
              ns |-> reg.ns, ann |-> reg.ann, cls |-> NoClass]
        ELSE IF del.err # "ok"
        THEN [err |-> del.err, raisedBy |-> "delegate", delegated |-> TRUE,
              ns |-> reg.ns, ann |-> reg.ann, cls |-> NoClass]
        ELSE [err |-> "ok", raisedBy |-> "nobody", delegated |-> TRUE,
              ns |-> reg.ns, ann |-> reg.ann,
              cls |-> [bases |-> bases,
                       mro |-> del.mro,
                       own |-> OwnDescriptors(reg.ns),
                       registry |-> FieldProperties(tbl, bases, reg.ns),
                       fields |-> del.fields,
                       private |-> del.private]]

NoDescriptor == field_property("none", NoFn, NoFn, NoFn, Undefined, NoName, NoFactory)
IsFieldProperty(d) == d.id # "none"

RECURSIVE LookupFrom(_, _, _, _)
LookupFrom(tbl, mro, i, name) ==
    IF i > Len(mro) THEN NoDescriptor
    ELSE IF name \in DOMAIN tbl[mro[i]].own THEN tbl[mro[i]].own[name]
    ELSE LookupFrom(tbl, mro, i + 1, name)

\* getattr(cls, name, None), as far as it yields a field_property
ClassAttr(tbl, c, name) == LookupFrom(tbl, tbl[c].mro, 1, name)

(***************************************************************************)
(* Instances.  st carries the instance through one attribute operation:    *)
(* dict is __dict__ (the map .dict() returns), slots the private           *)
(* attributes, err the exception raised, setters and getters the           *)
(* descriptor functions called.                                            *)
(***************************************************************************)
One(k, v) == [n \in {k} |-> v]

\* BaseModel.__setattr__ of the model system (no validate_assignment)
BaseSetAttr(tbl, c, st, name, value) ==
    IF name \in DOMAIN tbl[c].private
    THEN [st EXCEPT !.slots = Override(st.slots, One(name, value))]
    ELSE IF name \in DOMAIN tbl[c].fields
    THEN [st EXCEPT !.dict = Override(st.dict, One(name, value))]
    ELSE [st EXCEPT !.err = "ValueError"]

RECURSIVE ReadAll(_, _, _, _, _, _)
\* {name: object_getattr(self, name) for name in __field_properties__}
ReadAll(tbl, c, s, reg, i, acc) ==
    IF i > Len(reg) THEN acc
    ELSE LET got == descriptor_get(ClassAttr(tbl, c, reg[i]), s)
             called == Append(acc.getters, reg[i])
         IN  IF got.err # "ok"
             THEN [acc EXCEPT !.err = got.err, !.getters = called]
             ELSE ReadAll(tbl, c, s, reg, i + 1,
                          [acc EXCEPT !.vals = Override(acc.vals, One(reg[i], got.val)),
                                      !.getters = called])

\* __setattr__ with the update of __dict__ left out
RefreshSkipped(tbl, c, st) == st

\* self.__dict__.update({...}) of PropertyModel.__setattr__
Refresh(tbl, c, st) ==
    LET r == ReadAll(tbl, c, st.slots, tbl[c].registry, 1,
                     [err |-> "ok", vals |-> EmptyMap, getters |-> st.getters])
    IN  IF r.err # "ok"
        THEN [st EXCEPT !.err = r.err, !.getters = r.getters]
        ELSE [st EXCEPT !.dict = Override(st.dict, r.vals), !.getters = r.getters]

RECURSIVE setattr(_, _, _, _, _)
RECURSIVE CallSetter(_, _, _, _, _)
RECURSIVE descriptor_set(_, _, _, _, _)

\* calling a setter function on the instance
CallSetter(tbl, c, st, d, value) ==
    IF d.fset.kind = "store"
    THEN setattr(tbl, c, st, d.fset.slot, value)
    ELSE LET st1 == IF value.t = "float"
                    THEN setattr(tbl, c, st, d.fset.other, FracTenths(value))
                    ELSE st
         IN  IF st1.err # "ok" THEN st1
             ELSE setattr(tbl, c, st1, d.fset.slot, PyInt(value))

\* field_property.__set__
descriptor_set(tbl, c, st, d, value) ==
    IF d.fset.kind = "none"
    THEN [st EXCEPT !.err = "AttributeError: can't set attribute"]
    ELSE CallSetter(tbl, c, [st EXCEPT !.setters = st.setters \cup {d.id}], d, value)

\* __setattr__ without the isinstance(prop, field_property) test
setattr_always_refresh(tbl, c, st, name, value) ==
    LET b == BaseSetAttr(tbl, c, st, name, value)
        prop == ClassAttr(tbl, c, name)
    IN  IF b.err # "ok" THEN b
        ELSE IF name \in DOMAIN b.dict
        THEN LET w == IF IsFieldProperty(prop)
                      THEN descriptor_set(tbl, c, b, prop, value) ELSE b
             IN  IF w.err # "ok" THEN w ELSE Refresh(tbl, c, w)
        ELSE b

\* PropertyModel.__setattr__
setattr(tbl, c, st, name, value) ==
    LET b == BaseSetAttr(tbl, c, st, name, value)
        prop == ClassAttr(tbl, c, name)
    IN  IF b.err # "ok" THEN b
        ELSE IF name \in DOMAIN b.dict /\ IsFieldProperty(prop)
        THEN LET w == descriptor_set(tbl, c, b, prop, value)
             IN  IF w.err # "ok" THEN w ELSE Refresh(tbl, c, w)
        ELSE b

\* calling a deleter function on the instance: del self.<slot>
CallDeleter(st, d) ==
    IF GetSlot(st.slots, d.fdel.slot).err # "ok"
    THEN [st EXCEPT !.err = "AttributeError"]
    ELSE [st EXCEPT !.slots = Override(st.slots, One(d.fdel.slot, Missing))]

\* __delete__ falling back to deleting the private slot when fdel is None
descriptor_delete_fallback(st, d) ==
    IF d.fdel.kind = "none"
    THEN CallDeleter(st, deleter(d, DelSlot(d.private_name)))
    ELSE CallDeleter([st EXCEPT !.deleters = st.deleters \cup {d.id}], d)

\* field_property.__delete__
descriptor_delete(st, d) ==
    IF d.fdel.kind = "none"
    THEN [st EXCEPT !.err = "AttributeError: can't delete attribute"]
    ELSE CallDeleter([st EXCEPT !.deleters = st.deleters \cup {d.id}], d)

(***************************************************************************)
(* The classes the instance is taken from: Props is the class of           *)
(* test_field_property; Ext(Props) adds a field with a deleter and a       *)
(* default_factory (u), a field with no default (w), a field with no       *)
(* setter (r) and an ordinary field (a).                                   *)
(***************************************************************************)
PropsBody ==
    << FP("x", setter(field_property("x", SlotName("_x"), NoFn, NoFn,
                                     IntV(0), NoName, NoFactory), StoreTo("_x"))),
       FP("y", setter(getter(field_property("y", SlotName("_y"), NoFn, NoFn,
                                            IntV(0), NoName, NoFactory),
                             GetattrOr("_y", IntV(0))),
                      Coupled("_y", "_x"))),
       FP("z", setter(getter(field_property("z", NoFn, NoFn, NoFn,
                                            IntV(0), NoName, NoFactory),
                             GetattrOr("_z", IntV(0))),
                      StoreTo("_z"))),
       PA("_z", PrivateAttr(IntV(0), NoFactory)) >>
PropsAnnotations == [n \in {"x", "y"} |-> "int"]

ExtBody ==
    << FP("u", deleter(setter(field_property("u", SlotName("_u"), NoFn, NoFn,
                                             Undefined, NoName, IntV(0)),
                              StoreTo("_u")),
                       DelSlot("_u"))),
       FP("w", setter(field_property("w", SlotName("_w"), NoFn, NoFn,
                                     Undefined, NoName, NoFactory), StoreTo("_w"))),
       FP("r", field_property("r", SlotName("_r"), NoFn, NoFn,
                              IntV(0), NoName, NoFactory)),
       Plain("a", IntV(0)) >>
ExtAnnotations == [n \in {"u", "w", "a"} |-> "int"]

\* class PropertyModel(BaseModel, metaclass=PropertyModelMetaclass)
RootTable ==
    One("PropertyModel", MetaNew(EmptyMap, "PropertyModel", <<>>, <<>>, EmptyMap, TRUE).cls)
PropsTable ==
    Override(RootTable, One("Props",
        MetaNew(RootTable, "Props", <<"PropertyModel">>, PropsBody, PropsAnnotations, TRUE).cls))
InstTable ==
    Override(PropsTable, One("Ext",
        MetaNew(PropsTable, "Ext", <<"Props">>, ExtBody, ExtAnnotations, TRUE).cls))

\* the value a private attribute starts with
PrivateDefault(p) ==
    IF p.default # Undefined THEN p.default
    ELSE IF p.default_factory # NoFactory THEN p.default_factory
    ELSE Missing

\* Model(**kwargs): every field takes its default, a required one its keyword
NewDict(c, kw) ==
    [n \in DOMAIN InstTable[c].fields |->
        IF InstTable[c].fields[n] = Undefined THEN kw ELSE InstTable[c].fields[n]]
NewSlots(c) ==
    [n \in DOMAIN InstTable[c].private |-> PrivateDefault(InstTable[c].private[n])]

Registry == InstTable[cls].registry
Descriptor(name) == ClassAttr(InstTable, cls, name)
\* m.<name> for a registered field
Read(name) == descriptor_get(Descriptor(name), slots)

NoOp == [op |-> "new", name |-> NoName, value |-> None, err |-> "ok", result |-> None,
         setters |-> {}, getters |-> <<>>, deleters |-> {}]

\* a name that is neither a field nor a private attribute of the class
UnknownName == "q"
WriteNames == DOMAIN dict \cup DOMAIN slots \cup {UnknownName}
InputsFor(name) ==
    IF name \in {"x", "y"} THEN IntInputs \cup FloatInputs ELSE IntInputs

Start(d, s) == [dict |-> d, slots |-> s, err |-> "ok",
                setters |-> {}, getters |-> <<>>, deleters |-> {}]

Done(op, name, value, st, result) ==
    /\ dict' = st.dict
    /\ slots' = st.slots
    /\ last' = [op |-> op, name |-> name, value |-> value, err |-> st.err,
                result |-> result, setters |-> st.setters, getters |-> st.getters,
                deleters |-> st.deleters]
    /\ pre' = [dict |-> dict, slots |-> slots]
    /\ nops' = nops + 1
    /\ UNCHANGED <<cls, classes, built>>

\* m.<name> = value
SetAttr ==
    \E name \in WriteNames : \E value \in InputsFor(name) :
        /\ nops < MaxOps
        /\ Done("set", name, value,
                setattr(InstTable, cls, Start(dict, slots), name, value), None)

\* m.<name> of a registered field
GetAttr ==
    \E name \in {Registry[i] : i \in 1..Len(Registry)} :
        /\ nops < MaxOps
        /\ Done("get", name, None,
                [Start(dict, slots) EXCEPT !.err = Read(name).err, !.getters = <<name>>],
                Read(name).val)

\* del m.<name> of a registered field
DelAttr ==
    \E name \in {Registry[i] : i \in 1..Len(Registry)} :
        /\ nops < MaxOps
        /\ Done("del", name, None,
                descriptor_delete(Start(dict, slots), Descriptor(name)), None)

NoBuild == [name |-> NoName, bases |-> <<>>, namespace |-> <<>>, annotations |-> EmptyMap,
            err |-> "ok", raisedBy |-> "nobody", delegated |-> FALSE,
            ns |-> <<>>, ann |-> EmptyMap, before |-> RootTable]

Init ==
    /\ cls \in {"Props", "Ext"}
    /\ \E kw \in IntInputs : dict = NewDict(cls, kw)
    /\ slots = NewSlots(cls)
    /\ last = NoOp
    /\ pre = [dict |-> dict, slots |-> slots]
    /\ nops = 0
    /\ classes = RootTable
    /\ built = NoBuild

Next == SetAttr \/ GetAttr \/ DelAttr

Spec == Init /\ [][Next]_vars

(***************************************************************************)
(* Class construction                                                      *)
(***************************************************************************)
\* class statements executed besides that of PropertyModel
MaxClasses == 3
ClassNames == <<"A", "B", "C", "D", "E">>

\* the declarations of x a class body may hold; owner.x names the object
XDeclarations(owner) ==
    {<<>>}
    \cup {<<FP("x", setter(field_property(owner, SlotName("_x"), NoFn, NoFn,
                                          default, NoName, factory), StoreTo("_x")))>> :
            default \in {IntV(0), Undefined}, factory \in {NoFactory}}
    \cup {<<FP("x", field_property(owner, SlotName("_x"), NoFn, NoFn,
                                   IntV(0), NoName, IntV(1)))>>}
\* an explicit declaration of the slot of x, with a default of its own
SlotDeclarations == {<<>>, <<PA("_x", PrivateAttr(IntV(7), NoFactory))>>}
YDeclarations(owner) ==
    {<<>>,
     <<FP("y", setter(field_property(owner, SlotName("_y"), NoFn, NoFn,
                                     IntV(0), NoName, NoFactory), StoreTo("_y")))>>}

Bodies(owner) ==
    {x \o p \o y : x \in XDeclarations(owner), p \in SlotDeclarations,
                   y \in YDeclarations(owner)}
\* the explicit annotations of a body: y carries one, x may
AnnotationsOf(body) ==
    LET declared == {body[i].name : i \in {j \in 1..Len(body) :
                                            body[j].kind = "field_property"}}
    IN  {[n \in S |-> "int"] : S \in {declared, declared \ {"x"}}}

Built == {ClassNames[i] : i \in 1..Len(ClassNames)} \cap DOMAIN classes
\* the class statements executed so far; the i-th one names ClassNames[i]
Executed ==
    IF built.name = NoName THEN 0
    ELSE CHOOSE i \in 1..Len(ClassNames) : ClassNames[i] = built.name
\* the bases of a new class: PropertyModel, or up to two classes built so far
BaseChoices ==
    {<<"PropertyModel">>}
    \cup {<<b>> : b \in Built}
    \cup {<<p[1], p[2]>> : p \in {q \in Built \X Built : q[1] # q[2]}}

\* the builder's verdict matters only where a type is Undefined
Verdicts(body, ann) ==
    IF \E i \in 1..Len(body) : /\ body[i].kind = "field_property"
                               /\ body[i].name \notin DOMAIN ann
                               /\ get_type(body[i].val) = "Undefined"
    THEN BOOLEAN ELSE {TRUE}

\* class <name>(*bases): <body>
NewClass ==
    /\ Executed < MaxClasses
    /\ \E bases \in BaseChoices :
       \E body \in Bodies(ClassNames[Executed + 1]) :
       \E ann \in AnnotationsOf(body) :
       \E accept \in Verdicts(body, ann) :
        LET name == ClassNames[Executed + 1]
            out == MetaNew(classes, name, bases, body, ann, accept)
        IN  /\ classes' = IF out.err = "ok"
                          THEN Override(classes, One(name, out.cls))
                          ELSE classes
            /\ built' = [name |-> name, bases |-> bases, namespace |-> body,
                         annotations |-> ann, err |-> out.err,
                         raisedBy |-> out.raisedBy, delegated |-> out.delegated,
                         ns |-> out.ns, ann |-> out.ann, before |-> classes]
            /\ UNCHANGED ivars

MetaInit ==
    /\ cls = "Props"
    /\ dict = NewDict(cls, IntV(0))
    /\ slots = NewSlots(cls)
    /\ last = NoOp
    /\ pre = [dict |-> dict, slots |-> slots]
    /\ nops = 0
    /\ classes = RootTable
    /\ built = NoBuild

MetaNext == NewClass

MetaSpec == MetaInit /\ [][MetaNext]_vars

(***************************************************************************)
(* Properties of the instance protocol (Spec)                              *)
(***************************************************************************)
RegistryNames == {Registry[i] : i \in 1..Len(Registry)}
\* the last operation wrote a registered descriptor field
WroteField == last.op = "set" /\ last.name \in DOMAIN dict
                /\ IsFieldProperty(Descriptor(last.name))
\* m.<name> as it read before the last operation
ReadBefore(name) == descriptor_get(Descriptor(name), pre.slots)

\* C1: after every attribute write that returns (to a descriptor field, an
\* ordinary field or a private slot) the map holds, under every registered
\* name whose read returns a value, exactly that value.
C1_MapMirrorsReads ==
    (last.op = "set" /\ last.err = "ok") =>
        \A name \in RegistryNames :
            Read(name).err = "ok" => dict[name] = Read(name).val

\* floor((v mod 1) * 10), floor(v) and v truncated toward zero, for v = h/2
SpecFracTenths(h) == IntV(((h % 2) * 10) \div 2)
SpecFloor(h) == IntV(h \div 2)
SpecTrunc(h) == IntV(IF h >= 0 THEN h \div 2 ELSE -((-h) \div 2))

\* what a write of an int to y leaves alone: x as read, and every slot but _y
IntWriteToYChangesOnlyY ==
    /\ Read("y") = Ret(last.value)
    /\ Read("x") = ReadBefore("x")
    /\ \A n \in DOMAIN slots : n # "_y" => slots[n] = pre.slots[n]
    /\ last.err = "ok" => dict["y"] = last.value

C3_RoundTrip ==
    (last.op = "set" /\ last.name = "x") =>
        /\ Read("x") = Ret(last.value)
        /\ dict["x"] = Read("x").val

\* m.x = 1.5 returned on an instance whose map held something else under x
C3_Witness ==
    /\ last.op = "set" /\ last.name = "x" /\ last.err = "ok"
    /\ last.value = FloatV(3) /\ pre.dict["x"] # FloatV(3)
    /\ Descriptor("x").private_name = "_x"
    /\ Descriptor("x").fget.kind = "internal_getter"

\* the last operation was a write to a descriptor field whose refresh pass
\* was cut short by a read that raised
RefreshFailed == WroteField /\ last.err # "ok" /\ last.getters # <<>>

\* C4: when a read fails during the refresh pass of a write to a registered
\* field, the write raises and every key of the map holds the value it had
\* before the write began.
C4_FailedWriteLeavesMap ==
    RefreshFailed => dict = pre.dict

\* C5: deleting a registered field whose descriptor has no deleter raises the
\* not-deletable error, calls no deleter, and leaves map and slots unchanged.
C5_DeleteWithoutDeleter ==
    (last.op = "del" /\ Descriptor(last.name).fdel.kind = "none") =>
        /\ last.err = "AttributeError: can't delete attribute"
        /\ last.deleters = {}
        /\ dict = pre.dict
        /\ slots = pre.slots

\* del m.x raised after an earlier write had set the slot of x
C5_Witness ==
    /\ last.op = "del" /\ last.name = "x"
    /\ Descriptor("x").fdel.kind = "none"
    /\ last.err = "AttributeError: can't delete attribute"
    /\ slots["_x"] = IntV(1)

\* C7: the default getter of a descriptor built from a slot name returns the
\* slot's value when the slot is set; when it is not, the default (or what
\* default_factory gives) if one resolves, and else raises AttributeError.
C7_InternalGetter ==
    (/\ last.op = "get"
     /\ Descriptor(last.name).fget.kind = "internal_getter"
     /\ Descriptor(last.name).private_name # NoName) =>
        LET d == Descriptor(last.name)
        IN  IF slots[d.private_name] # Missing
            THEN last.err = "ok" /\ last.result = slots[d.private_name]
            ELSE IF get_default(d) # Undefined
            THEN last.err = "ok" /\ last.result = get_default(d)
            ELSE last.err = "AttributeError"

\* C10: a write to an ordinary field calls no descriptor setter and no
\* descriptor getter and leaves every registered key of the map and every
\* slot unchanged; a setter or getter runs only in a write to a registered
\* descriptor field that the standard path stored in the map.
C10_OrdinaryWrite ==
    /\ (/\ last.op = "set" /\ last.name \in DOMAIN dict
        /\ ~IsFieldProperty(Descriptor(last.name))) =>
            /\ last.err = "ok"
            /\ last.setters = {} /\ last.getters = <<>>
            /\ slots = pre.slots
            /\ \A n \in RegistryNames : dict[n] = pre.dict[n]
            /\ dict[last.name] = last.value
    /\ (last.op = "set" /\ (last.setters # {} \/ last.getters # <<>>)) =>
            /\ last.name \in RegistryNames
            /\ last.name \in DOMAIN dict

\* m._x = 1 left the map stale; the later m.a = 1 refreshed nothing
C10_Witness ==
    /\ last.op = "set" /\ last.name = "a" /\ last.value = IntV(1)
    /\ dict["a"] = IntV(1) /\ pre.dict["a"] = IntV(0)
    /\ slots["_x"] = IntV(1) /\ dict["x"] = IntV(0)

(***************************************************************************)
(* Properties of class construction (MetaSpec)                             *)
(***************************************************************************)
\* the last class statement produced a class
ClassBuilt == built.name # NoName /\ built.err = "ok"
\* the descriptors the body of the last class statement declares
Declared == {built.namespace[i].name : i \in
                {j \in 1..Len(built.namespace) :
                    built.namespace[j].kind = "field_property"}}
\* the descriptors of the last class body with no annotation and no default
Untyped == {n \in Declared \ DOMAIN built.annotations :
                get_type(NsGet(built.namespace, n).val) = "Undefined"}

\* C6: the registry of a new class holds the names of its bases' registries
\* and of its own descriptors, each name once, resolved to the most-derived
\* declaration; a redeclared name uses only the override; the registries of
\* the classes that existed before are unchanged.
C6_RegistryUnderInheritance ==
    ClassBuilt =>
        LET c == classes[built.name]
            inherited == BaseRegistries(built.before, built.bases, 1)
        IN  /\ {c.registry[i] : i \in 1..Len(c.registry)} =
                   {inherited[i] : i \in 1..Len(inherited)} \cup Declared
            /\ \A i, j \in 1..Len(c.registry) :
                   c.registry[i] = c.registry[j] => i = j
            /\ \A n \in Declared : ClassAttr(classes, built.name, n).id = built.name
            /\ \A k \in DOMAIN built.before : classes[k] = built.before[k]

\* C8: a class body holding a descriptor with no annotation whose type is
\* Undefined makes the registration pass raise a configuration error: the
\* builder is never called and no class is produced.
C8_UntypedFieldAborts ==
    (built.name # NoName /\ Untyped # {}) =>
        /\ built.err = "ConfigError"
        /\ built.raisedBy = "registration"
        /\ ~built.delegated
        /\ built.name \notin DOMAIN classes

\* C9: the registration pass adds a private declaration for a descriptor's
\* private_name only when the body declares none under that name; a slot the
\* body declares is handed on as declared.
C9_ExplicitSlotKept ==
    (built.name # NoName /\ built.raisedBy # "registration") =>
        /\ \A i \in 1..Len(built.namespace) :
              built.namespace[i].kind = "PrivateAttr" =>
                  NsGet(built.ns, built.namespace[i].name) = built.namespace[i]
        /\ \A n \in Declared :
              LET d == NsGet(built.namespace, n).val
              IN  (d.private_name # NoName /\ d.private_name \notin NsNames(built.namespace))
                  => NsGet(built.ns, d.private_name) =
                        PA(d.private_name, PrivateAttr(d.default, d.default_factory))

====
